---- MODULE Spec2Model ----
(***************************************************************************)
(* auto_sofalizer.py: the batch run of AudioProcessor.  One run is         *)
(* setup_workspace, process_all (process_file per discovered file, each    *)
(* file going through get_stream_info and the run_command stages) and      *)
(* cleanup.  File names are sequences of tokens: the characters of the     *)
(* base name followed by one token for the suffix the code appends.        *)
(***************************************************************************)
EXTENDS Integers, Sequences, FiniteSets, TLC

\* ------------------------------------------------------------- bounds
MaxFiles == 2      \* files in the input folder
MaxLines == 2      \* output lines read from one subprocess
MaxRuns == 2       \* runs of the program over the same folders (SpecTwice)
MaxFaults == 1     \* jobs of one run that the environment makes fail
MaxUnlinked == 1   \* files the per-job cleanup removes before an unlink raises

\* Optional values: None is the empty sequence, a value v is <<v>>.
None == <<>>
Some(v) == <<v>>

\* ------------------------------------------------------- the universe
\* Input files the folder may hold: <base>.<ext>.
File(b, e) == [base |-> b, ext |-> e]

InputUniverse ==
    { File(<<"a">>, "mkv"), File(<<"a">>, "mp4"), File(<<"a", "[", "b", "]">>, "mkv") }

\* The values of the positional argument `extensions` after the split.
ExtensionLists == { <<"mkv">>, <<"mkv", "mp4">> }

\* Values of `extensions` that name an extension more than once ("mkv,mkv").
RepeatedExtensionLists == { <<"mkv", "mkv">> }

\* max_volume values ffmpeg's volumedetect may print, in dB.
Volumes == {-6, 0, 2}

\* One line of subprocess output: it carries a "max_volume: <v> dB" token or not.
Lines == {[match |-> FALSE, value |-> 0]} \cup {[match |-> TRUE, value |-> v] : v \in Volumes}

SeqsUpTo(S, n) == UNION {[1..k -> S] : k \in 0..n}

Outputs == SeqsUpTo(Lines, MaxLines)

\* Values of the positional argument audio_track (argparse type=int).
AudioTracks == {-1, 0, 1}

\* What a path given on the command line may be.
PathKinds == {"missing", "file", "dir"}

Stages == {"extract", "spatialize", "measure", "normalize", "remux", "disposition"}

\* ------------------------------------------------------------ state
VARIABLES
    dry_run, skip_normalize, keep_temp, extensions,   \* ProcessingConfig
    input_folder,   \* what the path input_folder is: "missing", "file" or "dir"
    sofa_file,      \* what the path sofa_file is: "missing" or "present"
    audio_track,    \* ProcessingConfig.audio_track
    input_dir,      \* the files of input_folder
    output_exists,  \* whether output_folder exists
    output_dir,     \* output_folder: state of <base>(sofa).<ext>, per input file
    temp_exists,    \* whether temp_folder exists
    temp_dir,       \* the file names in temp_folder
    pc, stage,      \* position of the single thread
    all_files, idx, \* process_all: the discovered list and the loop position
    job,            \* process_file's locals, and what the current call has done
    stats,          \* AudioProcessor.stats
    results,        \* outcome of each process_file call of this run, in order
    procs,          \* the external processes started and not waited for
    exit_code,      \* what main returns
    ended,          \* the return statement of main that was reached
    ffmpeg_found,   \* what check_ffmpeg returned, once it has run
    prompt,         \* what input() returned to cleanup, once it was called
    run, prev       \* the run's number; the files of the previous run, by outcome

cfgvars == <<dry_run, skip_normalize, keep_temp, extensions, input_folder, sofa_file,
             audio_track>>
fsvars == <<output_exists, output_dir, temp_exists, temp_dir>>
mainvars == <<ended, ffmpeg_found, prompt>>
vars == <<dry_run, skip_normalize, keep_temp, extensions, input_folder, sofa_file,
          audio_track, input_dir, output_exists, output_dir, temp_exists, temp_dir,
          pc, stage, all_files, idx, job, stats, results, procs, exit_code, ended,
          ffmpeg_found, prompt, run, prev>>

\* ---------------------------------------------------------- helpers
\* Path.glob(f"{base}*"): fnmatch of the base as a pattern, then anything.
\* "[" opens a character class when a "]" closes it (a "]" right after the
\* "[" is a member); otherwise it is a literal.
ClosePos(p, j) ==
    IF \E k \in j..Len(p) : p[k] = "]"
    THEN CHOOSE k \in j..Len(p) : p[k] = "]" /\ \A m \in j..(k-1) : p[m] # "]"
    ELSE 0

ClassClose(p, i) ==
    ClosePos(p, IF i + 1 <= Len(p) /\ p[i+1] = "]" THEN i + 2 ELSE i + 1)

RECURSIVE GlobPrefix(_, _, _, _)
GlobPrefix(p, i, n, k) ==
    IF i > Len(p) THEN TRUE
    ELSE IF k > Len(n) THEN FALSE
    ELSE IF p[i] = "[" /\ ClassClose(p, i) # 0
         THEN /\ n[k] \in {p[m] : m \in (i+1)..(ClassClose(p, i) - 1)}
              /\ GlobPrefix(p, ClassClose(p, i) + 1, n, k + 1)
         ELSE p[i] = n[k] /\ GlobPrefix(p, i + 1, n, k + 1)

GlobMatches(base, name) == GlobPrefix(base, 1, name, 1)

\* The orders in which glob may list a set of files.
Perms(S) == {s \in [1..Cardinality(S) -> S] : \A i, j \in 1..Cardinality(S) : s[i] = s[j] => i = j}

\* The names process_file derives from the input file.
ExtractedAudio(f) == f.base \o <<".mkv">>
SofalizerOutput(f) == f.base \o <<"_sofa.flac">>
GainOutput(f) == f.base \o <<"_gain.flac">>
AlmostDone(f) == f.base \o <<"_almost_done." \o f.ext>>

LogName == <<"processing.log">>
SofaName == <<"irc_1003.sofa">>

Intermediates(f) == {ExtractedAudio(f), SofalizerOutput(f), GainOutput(f), AlmostDone(f)}

ZeroStats == [processed |-> 0, failed |-> 0, skipped |-> 0]

\* process_file's locals (max_volume, gain_db, normalized_audio) and the
\* record of what the call has done: the output path's state and the stats
\* when it began, the ffprobe runs, the run_command calls in order, the
\* processes spawned, the return code the last run_command call returned,
\* the volume= argument passed, the warning of line 310, what went wrong,
\* where, and the type of the exception process_file's handlers saw.
NewJob == [pre_output |-> "none", pre_stats |-> ZeroStats, probes |-> 0,
           calls |-> <<>>, spawns |-> 0, return_code |-> None,
           max_volume |-> None, gain_db |-> None, volume_arg |-> None,
           warned |-> FALSE, normalized_audio |-> <<>>,
           error |-> "none", failed_stage |-> "none", raised |-> "none"]

Result(o, at) == [outcome |-> o, at |-> at]

\* The files of a run that had a job with outcome o.
FilesWith(o) == {all_files[i] : i \in {k \in 1..Len(results) : results[k].outcome = o}}

NoRun == [processed |-> {}, failed |-> {}, skipped |-> {}]

Cur == all_files[idx]

\* ------------------------------------------------------------- Init
Init ==
    /\ dry_run \in BOOLEAN
    /\ skip_normalize \in BOOLEAN
    /\ keep_temp \in BOOLEAN
    /\ extensions \in ExtensionLists
    /\ input_folder = "dir"
    /\ sofa_file = "present"
    /\ audio_track = 0
    /\ input_dir \in {S \in SUBSET InputUniverse : Cardinality(S) <= MaxFiles}
    /\ output_exists = TRUE
    /\ output_dir \in {o \in [InputUniverse -> {"none", "prior"}] :
                          \A f \in InputUniverse : o[f] = "prior" => f \in input_dir}
    /\ temp_exists = FALSE
    /\ temp_dir = {}
    /\ pc = "setup"
    /\ stage = "none"
    /\ all_files = <<>>
    /\ idx = 0
    /\ job = NewJob
    /\ stats = ZeroStats
    /\ results = <<>>
    /\ procs = {}
    /\ exit_code = None
    /\ ended = None
    /\ ffmpeg_found = Some(TRUE)
    /\ prompt = None
    /\ run = 1
    /\ prev = NoRun

\* ------------------------------------------------- setup_workspace
SetupWorkspace ==
    /\ pc = "setup"
    /\ output_exists' = TRUE
    /\ temp_exists' = TRUE
    /\ temp_dir' = {LogName, SofaName}
    /\ pc' = "discover"
    /\ UNCHANGED <<cfgvars, input_dir, output_dir, stage, all_files, idx, job,
                   stats, results, procs, exit_code, ended, ffmpeg_found, prompt, run, prev>>

\* ------------------------------------------------------ process_all
\* Lines 363-374: one glob per configured extension, concatenated.
RECURSIVE Discoveries(_)
Discoveries(exts) ==
    IF exts = <<>> THEN {<<>>}
    ELSE {p \o rest : p \in Perms({f \in input_dir : f.ext = Head(exts)}),
                      rest \in Discoveries(Tail(exts))}

Discover ==
    /\ pc = "discover"
    /\ \E found \in Discoveries(extensions) :
          /\ all_files' = found
          /\ IF found = <<>>
             THEN pc' = "teardown" /\ idx' = 0
             ELSE pc' = "begin" /\ idx' = 1
    /\ job' = NewJob
    /\ UNCHANGED <<cfgvars, input_dir, fsvars, stage, stats, results, procs,
                   exit_code, ended, ffmpeg_found, prompt, run, prev>>

\* ----------------------------------------------------- process_file
OutputExists(f) == output_dir[f] # "none"

\* Fail without the increment of stats['failed'].
FailUncounted(err, at) ==
    /\ stats' = stats
    /\ results' = Append(results, Result("failed", at))
    /\ pc' = "returned"
    /\ stage' = "none"
    /\ exit_code' = exit_code
    /\ ended' = ended

\* Fail with no handler at the job boundary: the exception reaches main's
\* "Fatal error" handler, which returns 1.
FailPropagates(err, at) ==
    /\ stats' = stats
    /\ results' = results
    /\ pc' = "done"
    /\ stage' = "none"
    /\ exit_code' = Some(1)
    /\ ended' = Some("fatal")

\* Lines 351-358: both handlers count the job as failed and return False.
Fail(err, at) ==
    /\ stats' = [stats EXCEPT !.failed = @ + 1]
    /\ results' = Append(results, Result("failed", at))
    /\ pc' = "returned"
    /\ stage' = "none"
    /\ exit_code' = exit_code
    /\ ended' = ended

\* BeginFile without the test of the output path.
BeginFileNoCheck ==
    /\ pc = "begin"
    /\ pc' = "probe"
    /\ job' = [NewJob EXCEPT !.pre_output = output_dir[Cur], !.pre_stats = stats]
    /\ UNCHANGED <<cfgvars, input_dir, fsvars, stage, all_files, idx, stats,
                   results, procs, exit_code, ended, ffmpeg_found, prompt, run, prev>>

\* The environment may still make a job of this run fail.
CanFail == stats.failed < MaxFaults

\* Lines 234-248: the names, and the check of the output path.
BeginFile ==
    /\ pc = "begin"
    /\ IF OutputExists(Cur)
       THEN /\ stats' = [stats EXCEPT !.skipped = @ + 1]
            /\ results' = Append(results, Result("skipped", "none"))
            /\ pc' = "returned"
       ELSE /\ pc' = "probe"
            /\ UNCHANGED <<stats, results>>
    /\ job' = [NewJob EXCEPT !.pre_output = output_dir[Cur], !.pre_stats = stats]
    /\ UNCHANGED <<cfgvars, input_dir, fsvars, stage, all_files, idx, procs,
                   exit_code, ended, ffmpeg_found, prompt, run, prev>>

\* What get_stream_info can meet: ffprobe missing, ffprobe failing or printing
\* no stream (all give {}), a stream whose fields display, and a stream whose
\* sample_rate is not an integer literal (line 265 raises ValueError).
\* job.probes counts the subprocess.run calls.
ProbeResults == {"missing", "error", "empty", "info", "malformed"}

\* Lines 250-278: subprocess.run of ffprobe, whatever dry_run says.
GetStreamInfo ==
    /\ pc = "probe"
    /\ \E r \in ProbeResults :
          /\ r = "malformed" => CanFail
          /\ job' = [job EXCEPT !.probes = @ + 1,
                                !.error = IF r = "malformed" THEN "display_error" ELSE @,
                                !.failed_stage = IF r = "malformed" THEN "probe" ELSE @,
                                !.raised = IF r = "malformed" THEN "ValueError" ELSE @]
          /\ IF r = "malformed"
             THEN Fail("display_error", "probe")
             ELSE /\ pc' = "call"
                  /\ stage' = "extract"
                  /\ UNCHANGED <<stats, results, exit_code, ended>>
    /\ UNCHANGED <<cfgvars, input_dir, fsvars, all_files, idx, procs, ffmpeg_found, prompt, run, prev>>

\* NextStage with --no-normalize skipping the normalize call only.
NextStageMeasureAnyway(s) ==
    CASE s = "extract" -> "spatialize"
      [] s = "spatialize" -> "measure"
      [] s = "measure" -> IF skip_normalize THEN "remux" ELSE "normalize"
      [] s = "normalize" -> "remux"
      [] s = "remux" -> "disposition"
      [] s = "disposition" -> "unlink"

\* The order of the run_command calls of lines 280-339.
NextStage(s) ==
    CASE s = "extract" -> "spatialize"
      [] s = "spatialize" -> IF skip_normalize THEN "remux" ELSE "measure"
      [] s = "measure" -> "normalize"
      [] s = "normalize" -> "remux"
      [] s = "remux" -> "disposition"
      [] s = "disposition" -> "unlink"

\* The file a stage's ffmpeg writes into temp_folder (none for measure and
\* disposition: the one reads into the null sink, the other writes output_file).
StageOutput(s, f) ==
    CASE s = "extract" -> {ExtractedAudio(f)}
      [] s = "spatialize" -> {SofalizerOutput(f)}
      [] s = "normalize" -> {GainOutput(f)}
      [] s = "remux" -> {AlmostDone(f)}
      [] OTHER -> {}

\* The file of temp_folder a stage's ffmpeg reads.
StageInput(s, f) ==
    CASE s = "spatialize" -> {ExtractedAudio(f)}
      [] s = "measure" -> {SofalizerOutput(f)}
      [] s = "normalize" -> {SofalizerOutput(f)}
      [] s = "remux" -> {job.normalized_audio}
      [] s = "disposition" -> {AlmostDone(f)}
      [] OTHER -> {}

\* Lines 169-174: the last line matching max_volume wins.
RECURSIVE ParseMaxVolume(_)
ParseMaxVolume(lines) ==
    IF lines = <<>> THEN None
    ELSE IF lines[Len(lines)].match THEN Some(lines[Len(lines)].value)
    ELSE ParseMaxVolume(SubSeq(lines, 1, Len(lines) - 1))

\* GainDb without the negation.
GainDbNotNegated(max_volume) == IF max_volume = None THEN 0 ELSE max_volume[1]

\* Lines 309-314: the gain in dB; 0dB when nothing was measured.
GainDb(max_volume) == IF max_volume = None THEN 0 ELSE 0 - max_volume[1]

\* process_file's use of what run_command returned for stage s, and the
\* assignments up to the next run_command call.
StageReturn(j, s, max_volume) ==
    LET j1 == IF s = "measure"
              THEN [j EXCEPT !.max_volume = max_volume,
                             !.gain_db = Some(GainDb(max_volume)),
                             !.warned = (max_volume = None)]
              ELSE j
        nxt == NextStage(s)
    IN  CASE nxt = "normalize" -> [j1 EXCEPT !.normalized_audio = GainOutput(Cur)]
          [] nxt = "remux" /\ s = "spatialize" -> [j1 EXCEPT !.normalized_audio = SofalizerOutput(Cur)]
          [] OTHER -> j1

Advance(s) ==
    IF NextStage(s) = "unlink"
    THEN pc' = "unlink" /\ stage' = "none"
    ELSE pc' = "call" /\ stage' = NextStage(s)

Proc(s) == [run |-> run, idx |-> idx, stage |-> s]

\* IsDryRun with the test left out.
IsDryRunIgnored == FALSE

\* Lines 153-155: run_command's dry-run test.
IsDryRun == dry_run

\* The volume= argument of the normalize command (line 320).
Command(j, s) == IF s = "normalize" THEN [j EXCEPT !.volume_arg = j.gain_db] ELSE j

\* The exit statuses of a subprocess: 0 and one that is not.
ExitCodes == {0, 1}

\* RunCommandRaises without the test of return_code (line 178).
RunCommandUnchecked(cause) ==
    IF cause \in {"none", "exit_nonzero"} THEN "none" ELSE "FFmpegCommandError"

\* Lines 176-191: what run_command raises for what happened in its try
\* block: a non-zero return code (line 184, raised again by line 191), Popen
\* not finding ffmpeg (line 189), any other Exception (line 191).
RunCommandRaises(cause) ==
    CASE cause = "none" -> "none"
      [] cause = "exit_nonzero" -> "FFmpegCommandError"
      [] cause = "not_found" -> "FFmpegCommandError"
      [] cause \in {"spawn_error", "read_error"} -> "FFmpegCommandError"

\* run_command up to Popen (lines 147-164): the dry-run return, the spawn,
\* or the spawn failing (FileNotFoundError, any other exception).
CallStage ==
    /\ pc = "call"
    /\ LET j == Command([job EXCEPT !.calls = Append(@, stage)], stage) IN
       \/ /\ IsDryRun
          /\ job' = StageReturn([j EXCEPT !.return_code = Some(0)], stage, None)
          /\ Advance(stage)
          /\ UNCHANGED <<stats, results, procs, exit_code, ended>>
       \/ /\ ~IsDryRun
          /\ job' = [j EXCEPT !.spawns = @ + 1]
          /\ procs' = procs \cup {Proc(stage)}
          /\ pc' = "wait"
          /\ UNCHANGED <<stage, stats, results, exit_code, ended>>
       \/ /\ ~IsDryRun
          /\ CanFail
          /\ \E err \in {"not_found", "spawn_error"} :
                /\ job' = [j EXCEPT !.error = err, !.failed_stage = stage,
                                      !.raised = RunCommandRaises(err)]
                /\ Fail(err, stage)
          /\ UNCHANGED procs
    /\ UNCHANGED <<cfgvars, input_dir, fsvars, all_files, idx, ffmpeg_found, prompt, run, prev>>

\* Written with the last stage writing beside the intermediates.
WrittenToTemp(s, how) ==
    /\ temp_dir' = temp_dir \cup StageOutput(s, Cur)
    /\ output_dir' = output_dir
    /\ UNCHANGED <<output_exists, temp_exists>>

\* What the finished (or abandoned) ffmpeg of stage s has written.
Written(s, how) ==
    /\ temp_dir' = temp_dir \cup StageOutput(s, Cur)
    /\ output_dir' = IF s = "disposition"
                     THEN [output_dir EXCEPT ![Cur] = how]
                     ELSE output_dir
    /\ UNCHANGED <<output_exists, temp_exists>>

\* run_command from the read loop on (lines 166-191): the output is read to
\* its end and the process waited for, its return code being 0 or not, or
\* reading raises and the process is left as it is.
WaitStage ==
    /\ pc = "wait"
    /\ \E max_volume \in {ParseMaxVolume(lines) : lines \in Outputs} :
       LET j == job IN
       \/ /\ StageInput(stage, Cur) \subseteq temp_dir
          /\ procs' = procs \ {Proc(stage)}
          /\ Written(stage, "complete")
          /\ job' = StageReturn([j EXCEPT !.return_code = Some(0)], stage, max_volume)
          /\ Advance(stage)
          /\ UNCHANGED <<stats, results, exit_code, ended>>
       \/ /\ CanFail
          /\ procs' = procs \ {Proc(stage)}
          /\ \/ Written(stage, "partial")
             \/ UNCHANGED fsvars
          /\ \E return_code \in ExitCodes \ {0} :
                IF RunCommandRaises("exit_nonzero") = "none"
                THEN /\ job' = StageReturn([j EXCEPT !.return_code = Some(return_code)],
                                           stage, max_volume)
                     /\ Advance(stage)
                     /\ UNCHANGED <<stats, results, exit_code, ended>>
                ELSE /\ job' = [j EXCEPT !.error = "exit_nonzero", !.failed_stage = stage,
                                         !.raised = RunCommandRaises("exit_nonzero")]
                     /\ Fail("exit_nonzero", stage)
       \/ /\ CanFail
          /\ UNCHANGED procs
          /\ \/ Written(stage, "partial")
             \/ UNCHANGED fsvars
          /\ job' = [j EXCEPT !.error = "read_error", !.failed_stage = stage,
                              !.raised = RunCommandRaises("read_error")]
          /\ Fail("read_error", stage)
    /\ UNCHANGED <<cfgvars, input_dir, all_files, idx, ffmpeg_found, prompt, run, prev>>

\* Lines 341-349: unlink what glob(f"{base}*") lists in temp_folder, then
\* count the job as processed; an unlink that raises ends the loop there.
CleanupTargets(f) == {n \in temp_dir : GlobMatches(f.base, n)}

JobCleanup ==
    /\ pc = "unlink"
    /\ \/ /\ temp_dir' = temp_dir \ CleanupTargets(Cur)
          /\ stats' = [stats EXCEPT !.processed = @ + 1]
          /\ results' = Append(results, Result("processed", "none"))
          /\ pc' = "returned"
          /\ UNCHANGED <<job, stage, exit_code, ended>>
       \/ /\ CanFail
          /\ \E gone \in SUBSET CleanupTargets(Cur) :
                /\ gone # CleanupTargets(Cur)
                /\ Cardinality(gone) <= MaxUnlinked
                /\ temp_dir' = temp_dir \ gone
          /\ job' = [job EXCEPT !.error = "unlink_error", !.failed_stage = "unlink",
                                !.raised = "OSError"]
          /\ Fail("unlink_error", "unlink")
    /\ UNCHANGED <<cfgvars, input_dir, output_exists, output_dir, temp_exists, all_files, idx,
                   procs, ffmpeg_found, prompt, run, prev>>

\* Lines 382-386: the loop over all_files, then print_summary.
NextFile ==
    /\ pc = "returned"
    /\ IF idx < Len(all_files)
       THEN idx' = idx + 1 /\ pc' = "begin"
       ELSE idx' = idx /\ pc' = "summary"
    /\ job' = NewJob
    /\ UNCHANGED <<cfgvars, input_dir, fsvars, stage, all_files, stats,
                   results, procs, exit_code, ended, ffmpeg_found, prompt, run, prev>>

PrintSummary ==
    /\ pc = "summary"
    /\ pc' = "teardown"
    /\ UNCHANGED <<cfgvars, input_dir, fsvars, stage, all_files, idx, job, stats,
                   results, procs, exit_code, ended, ffmpeg_found, prompt, run, prev>>

\* ------------------------------------------------------------- main
\* ExitCode with the interrupt handler returning what the fatal one does.
ExitCodeInterruptFatal(how) ==
    CASE how = "complete" -> 0
      [] how = "interrupt" -> 1
      [] OTHER -> 1

\* ExitCode with a completed run returning 1 when a job failed.
ExitCodeCountsFailed(how) ==
    CASE how = "complete" -> IF stats.failed > 0 THEN 1 ELSE 0
      [] how = "interrupt" -> 130
      [] how \in {"config_error", "no_ffmpeg", "fatal"} -> 1

\* The return statements of main: lines 555, 561, 585, 590 and 594.
ExitCode(how) ==
    CASE how = "complete" -> 0
      [] how = "interrupt" -> 130
      [] how \in {"config_error", "no_ffmpeg", "fatal"} -> 1

Return(how) ==
    /\ ended' = Some(how)
    /\ exit_code' = Some(ExitCode(how))
    /\ pc' = "done"

\* validate without the test of audio_track.
validateAnyTrack ==
    CASE input_folder = "missing" -> "no_input"
      [] input_folder # "dir" -> "not_dir"
      [] sofa_file = "missing" -> "no_sofa"
      [] extensions = <<>> -> "no_extension"
      [] OTHER -> "none"

\* Lines 57-72: the ValueError validate raises, "none" when it returns.
validate ==
    CASE input_folder = "missing" -> "no_input"
      [] input_folder # "dir" -> "not_dir"
      [] sofa_file = "missing" -> "no_sofa"
      [] audio_track < 0 -> "negative_track"
      [] extensions = <<>> -> "no_extension"
      [] OTHER -> "none"

\* MainValidate with the workspace set up before validate is called.
MainValidateLate ==
    /\ pc = "validate"
    /\ IF validate # "none"
       THEN /\ Return("config_error")
            /\ output_exists' = TRUE
            /\ temp_exists' = TRUE
            /\ temp_dir' = {LogName, SofaName}
            /\ UNCHANGED output_dir
       ELSE /\ pc' = "check_ffmpeg"
            /\ UNCHANGED <<exit_code, ended, fsvars>>
    /\ UNCHANGED <<cfgvars, input_dir, stage, all_files, idx, job, stats,
                   results, procs, ffmpeg_found, prompt, run, prev>>

\* Lines 540-555: the configuration is built and validated.
MainValidate ==
    /\ pc = "validate"
    /\ IF validate # "none"
       THEN Return("config_error")
       ELSE pc' = "check_ffmpeg" /\ UNCHANGED <<exit_code, ended>>
    /\ UNCHANGED <<cfgvars, input_dir, fsvars, stage, all_files, idx, job, stats,
                   results, procs, ffmpeg_found, prompt, run, prev>>

\* Lines 557-561 (check_ffmpeg, lines 95-106): ffmpeg -version runs or not.
CheckFfmpeg ==
    /\ pc = "check_ffmpeg"
    /\ \E found \in BOOLEAN :
          /\ ffmpeg_found' = Some(found)
          /\ IF found
             THEN pc' = "setup" /\ UNCHANGED <<exit_code, ended>>
             ELSE Return("no_ffmpeg")
    /\ UNCHANGED <<cfgvars, input_dir, fsvars, stage, all_files, idx, job, stats,
                   results, procs, prompt, run, prev>>

\* Lines 591-594: setup_workspace raises (mkdir of output_folder refused,
\* or the copy of line 130 failing after temp_folder and the log were made).
SetupFails ==
    /\ pc = "setup"
    /\ \/ UNCHANGED fsvars
       \/ /\ output_exists' = TRUE
          /\ temp_exists' = TRUE
          /\ temp_dir' = {LogName}
          /\ UNCHANGED output_dir
    /\ Return("fatal")
    /\ UNCHANGED <<cfgvars, input_dir, stage, all_files, idx, job, stats,
                   results, procs, ffmpeg_found, prompt, run, prev>>

\* Where main is while the try block of lines 579-585 runs.
InTry == {"setup", "discover", "begin", "probe", "call", "wait", "unlink",
          "returned", "summary", "teardown"}

\* Interrupt with the handler removing temp_folder as cleanup does.
InterruptCleansUp ==
    /\ pc \in InTry
    /\ temp_exists' = FALSE
    /\ temp_dir' = {}
    /\ UNCHANGED <<output_exists, output_dir>>
    /\ Return("interrupt")
    /\ UNCHANGED <<cfgvars, input_dir, stage, all_files, idx, job, stats,
                   results, procs, ffmpeg_found, prompt, run, prev>>

\* Lines 587-590: KeyboardInterrupt, which no handler below main catches.
\* A running ffmpeg is not waited for; it may have begun its output file.
Interrupt ==
    /\ pc \in InTry
    /\ IF pc = "wait"
       THEN \/ Written(stage, "partial")
            \/ UNCHANGED fsvars
       ELSE UNCHANGED fsvars
    /\ Return("interrupt")
    /\ UNCHANGED <<cfgvars, input_dir, stage, all_files, idx, job, stats,
                   results, procs, ffmpeg_found, prompt, run, prev>>

\* ---------------------------------------------------------- cleanup
\* What the user may type at the prompt of line 411, as characters.
Responses == { <<"y">>, <<"Y", " ">>, <<"y", "e", "s">>, <<>> }

\* input() raising EOFError, which line 417 catches.
EndOfFile == <<"EOF">>

\* str.strip() and str.lower() over the characters above.
RECURSIVE Strip(_)
Strip(r) ==
    IF r = <<>> THEN r
    ELSE IF Head(r) = " " THEN Strip(Tail(r))
    ELSE IF r[Len(r)] = " " THEN Strip(SubSeq(r, 1, Len(r) - 1))
    ELSE r

LowerChar(c) == IF c = "Y" THEN "y" ELSE c

Lower(r) == [i \in 1..Len(r) |-> LowerChar(r[i])]

\* Affirmative accepting every answer that begins with "y".
AffirmativePrefix(response) ==
    Lower(Strip(response)) # <<>> /\ Head(Lower(Strip(response))) = "y"

\* Lines 411-412: response == 'y' after strip() and lower().
Affirmative(response) == Lower(Strip(response)) = <<"y">>

\* Lines 398-418, then main's return 0 (lines 584-585).  shutil.rmtree
\* removes the tree, or raises and line 417 logs it: at the first file,
\* nothing being removed, or at the directory itself, every file being gone.
Cleanup ==
    /\ pc = "teardown"
    /\ IF keep_temp \/ dry_run \/ ~temp_exists
       THEN UNCHANGED <<temp_exists, temp_dir, prompt>>
       ELSE \E response \in Responses \cup {EndOfFile} :
               /\ prompt' = Some(response)
               /\ IF Affirmative(response)
                  THEN \/ temp_exists' = FALSE /\ temp_dir' = {}
                       \/ temp_exists' = TRUE /\ temp_dir' \in {temp_dir, {}}
                  ELSE UNCHANGED <<temp_exists, temp_dir>>
    /\ Return("complete")
    /\ UNCHANGED <<cfgvars, input_dir, output_exists, output_dir, stage, all_files,
                   idx, job, stats, results, procs, ffmpeg_found, run, prev>>

\* The program started again on the same folders with the same arguments.
Rerun ==
    /\ pc = "done"
    /\ run < MaxRuns
    /\ run' = run + 1
    /\ prev' = [processed |-> FilesWith("processed"), failed |-> FilesWith("failed"),
                skipped |-> FilesWith("skipped")]
    /\ pc' = "setup"
    /\ stage' = "none"
    /\ all_files' = <<>>
    /\ idx' = 0
    /\ job' = NewJob
    /\ stats' = ZeroStats
    /\ results' = <<>>
    /\ procs' = {}
    /\ exit_code' = None
    /\ ended' = None
    /\ prompt' = None
    /\ UNCHANGED <<cfgvars, input_dir, fsvars, ffmpeg_found>>

Next ==
    \/ SetupWorkspace
    \/ Discover
    \/ BeginFile
    \/ GetStreamInfo
    \/ CallStage
    \/ WaitStage
    \/ JobCleanup
    \/ NextFile
    \/ PrintSummary
    \/ Cleanup

NextTwice == Next \/ Rerun

NextMain == MainValidate \/ CheckFfmpeg \/ SetupFails \/ Interrupt \/ Next

Spec == Init /\ [][Next]_vars

SpecTwice == Init /\ [][NextTwice]_vars

\* validate() over every ProcessingConfig.
InitValidate ==
    /\ dry_run \in BOOLEAN
    /\ skip_normalize \in BOOLEAN
    /\ keep_temp \in BOOLEAN
    /\ extensions \in ExtensionLists \cup {<<>>}
    /\ input_folder \in PathKinds
    /\ sofa_file \in {"missing", "present"}
    /\ audio_track \in AudioTracks
    /\ input_dir = {}
    /\ output_exists = FALSE
    /\ output_dir = [f \in InputUniverse |-> "none"]
    /\ temp_exists = FALSE
    /\ temp_dir = {}
    /\ pc = "validate"
    /\ stage = "none"
    /\ all_files = <<>>
    /\ idx = 0
    /\ job = NewJob
    /\ stats = ZeroStats
    /\ results = <<>>
    /\ procs = {}
    /\ exit_code = None
    /\ ended = None
    /\ ffmpeg_found = None
    /\ prompt = None
    /\ run = 1
    /\ prev = NoRun

SpecValidate == InitValidate /\ [][MainValidate]_vars

\* main from the command line: the folders as a user may have them, with
\* or without the output folder and the temp folder of an earlier run, which
\* may still hold what a failed job of that run left.
InitMain ==
    /\ dry_run \in BOOLEAN
    /\ skip_normalize \in BOOLEAN
    /\ keep_temp \in BOOLEAN
    /\ extensions \in ExtensionLists
    /\ input_folder \in PathKinds
    /\ sofa_file \in {"missing", "present"}
    /\ audio_track \in {t \in AudioTracks : t <= 0}
    /\ input_dir \in {S \in SUBSET InputUniverse :
                         /\ Cardinality(S) <= MaxFiles
                         /\ input_folder # "dir" => S = {}}
    /\ output_exists \in BOOLEAN
    /\ output_dir \in {o \in [InputUniverse -> {"none", "prior"}] :
                          \A f \in InputUniverse :
                             o[f] = "prior" => f \in input_dir /\ output_exists}
    /\ temp_exists \in {e \in BOOLEAN : e => output_exists}
    /\ temp_dir \in IF temp_exists
                    THEN {{LogName, SofaName} \cup kept :
                             kept \in {{}} \cup {{ExtractedAudio(f)} : f \in input_dir}}
                    ELSE {{}}
    /\ pc = "validate"
    /\ stage = "none"
    /\ all_files = <<>>
    /\ idx = 0
    /\ job = NewJob
    /\ stats = ZeroStats
    /\ results = <<>>
    /\ procs = {}
    /\ exit_code = None
    /\ ended = None
    /\ ffmpeg_found = None
    /\ prompt = None
    /\ run = 1
    /\ prev = NoRun

SpecMain == InitMain /\ [][NextMain]_vars

\* The batch run with an extension list that repeats an extension.
InitRepeated ==
    /\ dry_run \in BOOLEAN
    /\ skip_normalize \in BOOLEAN
    /\ keep_temp \in BOOLEAN
    /\ extensions \in RepeatedExtensionLists
    /\ input_folder = "dir"
    /\ sofa_file = "present"
    /\ audio_track = 0
    /\ input_dir \in {S \in SUBSET InputUniverse : Cardinality(S) <= MaxFiles}
    /\ output_exists = TRUE
    /\ output_dir \in {o \in [InputUniverse -> {"none", "prior"}] :
                          \A f \in InputUniverse : o[f] = "prior" => f \in input_dir}
    /\ temp_exists = FALSE
    /\ temp_dir = {}
    /\ pc = "setup"
    /\ stage = "none"
    /\ all_files = <<>>
    /\ idx = 0
    /\ job = NewJob
    /\ stats = ZeroStats
    /\ results = <<>>
    /\ procs = {}
    /\ exit_code = None
    /\ ended = None
    /\ ffmpeg_found = Some(TRUE)
    /\ prompt = None
    /\ run = 1
    /\ prev = NoRun

SpecRepeated == InitRepeated /\ [][Next]_vars

\* ------------------------------------------------------------ claims
InJob == pc \in {"probe", "call", "wait", "unlink", "returned"}

Returned(o) == pc = "returned" /\ results[idx].outcome = o

Range(q) == {q[i] : i \in 1..Len(q)}

IsPrefix(q, t) == Len(q) <= Len(t) /\ SubSeq(t, 1, Len(q)) = q

Sum(st) == st.processed + st.failed + st.skipped

Count(o) == Cardinality({i \in 1..Len(results) : results[i].outcome = o})

\* C1: a job whose output path exists when process_file starts ends as
\* Skipped in that step: skipped is one more, processed and failed are as
\* before, no ffprobe run and no run_command call was made for it, and the
\* output file is as it was.
C1_SkipExisting ==
    (InJob /\ job.pre_output # "none") =>
        /\ Returned("skipped")
        /\ stats = [job.pre_stats EXCEPT !.skipped = @ + 1]
        /\ job.probes = 0 /\ job.calls = <<>> /\ job.spawns = 0
        /\ output_dir[Cur] = job.pre_output

C1_Witness == Returned("skipped") /\ job.pre_output = "prior" /\ idx = 2

\* C2: each process_file call adds exactly 1 to exactly one of the three
\* counters, so after k calls the counters sum to k, and once the loop of
\* process_all is over they sum to the number of discovered files.
C2_Accounting ==
    /\ pc = "returned" =>
          /\ stats \in { [job.pre_stats EXCEPT !.processed = @ + 1],
                         [job.pre_stats EXCEPT !.failed = @ + 1],
                         [job.pre_stats EXCEPT !.skipped = @ + 1] }
          /\ Sum(stats) = idx
    /\ pc \in {"summary", "teardown", "done"} => Sum(stats) = Len(all_files)

C2_Witness ==
    pc = "summary" /\ stats.processed >= 1 /\ stats.failed >= 1

\* C3: a job that raises, in run_command or anywhere else, returns from
\* process_file counted as failed; the jobs after it are run all the same and
\* have the outcome their own run gives them, so every discovered file has
\* an outcome when the loop is over, and main never sees the exception.
C3_FailureContained ==
    /\ pc = "returned" =>
          /\ Len(results) = idx
          /\ (job.error # "none") <=> (results[idx].outcome = "failed")
          /\ (job.error = "none" /\ job.pre_output = "none") =>
                results[idx].outcome = "processed"
    /\ pc \in {"summary", "done"} => Len(results) = Len(all_files)
    /\ stats = [processed |-> Count("processed"), failed |-> Count("failed"),
                skipped |-> Count("skipped")]
    /\ exit_code \in {None, Some(0)}

\* a.mkv fails in the measure stage, a[b].mkv is processed: 1, 1, 0.
C3_Witness ==
    /\ pc = "summary"
    /\ all_files = <<File(<<"a">>, "mkv"), File(<<"a", "[", "b", "]">>, "mkv")>>
    /\ results = <<Result("failed", "measure"), Result("processed", "none")>>
    /\ stats = [processed |-> 1, failed |-> 1, skipped |-> 0]

PrevDone(f) == f \in prev.skipped \/ (f \in prev.processed /\ ~dry_run)

ExpectedCalls ==
    IF skip_normalize
    THEN <<"extract", "spatialize", "remux", "disposition">>
    ELSE <<"extract", "spatialize", "measure", "normalize", "remux", "disposition">>

\* The order of C5: the calls made are a prefix of the stages in order, the
\* cleanup comes after all of them, and a job that raised has stopped at the
\* stage that raised.
C5_StageOrder ==
    /\ IsPrefix(job.calls, ExpectedCalls)
    /\ (pc = "unlink" \/ (pc = "returned" /\ results[idx].outcome = "processed")) =>
          job.calls = ExpectedCalls
    /\ job.error # "none" =>
          /\ Returned("failed")
          /\ job.failed_stage \in Stages =>
                job.calls # <<>> /\ job.calls[Len(job.calls)] = job.failed_stage
          /\ job.failed_stage = "probe" => job.calls = <<>>

\* C5: within a job the stages run in order, none before the one before it
\* has succeeded, none after one has failed, and at most one external
\* process exists at a time.
C5_Sequential == C5_StageOrder /\ Cardinality(procs) <= 1

\* C6: a job that ends processed has made the five calls extract,
\* spatialize, measure, normalize, remux and one or two disposition calls,
\* or, with skip_normalize, four calls and neither measure nor normalize;
\* outside dry-run each call spawned one process.
C6_InvocationCount ==
    Returned("processed") =>
        LET fix == {i \in 1..Len(job.calls) : job.calls[i] = "disposition"} IN
        /\ Cardinality(fix) \in {1, 2}
        /\ Len(job.calls) - Cardinality(fix) = IF skip_normalize THEN 3 ELSE 5
        /\ skip_normalize => Len(job.calls) = 4 /\ Range(job.calls) \cap {"measure", "normalize"} = {}
        /\ ~skip_normalize =>
              SubSeq(job.calls, 1, 5) = <<"extract", "spatialize", "measure", "normalize", "remux">>
        /\ ~dry_run => job.spawns = Len(job.calls)

C6_Witness ==
    Returned("processed") /\ ~skip_normalize /\ ~dry_run /\ job.spawns = 6

\* C7: the volume= argument of the normalize call is the negation of the
\* max_volume the measure call of this job returned, or 0 with the warning
\* logged when it returned None; the normalize call is made in both cases.
C7_GainNegatesPeak ==
    /\ "normalize" \in Range(job.calls) =>
          /\ job.volume_arg = IF job.max_volume = None THEN Some(0)
                              ELSE Some(0 - job.max_volume[1])
          /\ job.warned <=> (job.max_volume = None)
    /\ ("measure" \in Range(job.calls) /\ stage # "measure" /\ job.failed_stage # "measure") =>
          (pc = "call" /\ stage = "normalize") \/ "normalize" \in Range(job.calls)

C7_Witness ==
    /\ "normalize" \in Range(job.calls)
    /\ job.max_volume = Some(-6)
    /\ job.volume_arg = Some(6)

\* C8 as stated: in dry-run mode nothing launches a process while a file is
\* processed, the stream metadata query included.
C8_DryRunNoLaunch ==
    dry_run => job.spawns = 0 /\ procs = {} /\ job.probes = 0

\* C8, amended: in dry-run mode no run_command call spawns a process, each
\* returns (None, 0) and writes nothing; the stream metadata query is still
\* run, once per file that is not skipped.
C8_DryRunNoEngine ==
    dry_run =>
        /\ job.spawns = 0 /\ procs = {}
        /\ job.max_volume = None
        /\ job.error \in {"none", "display_error", "unlink_error"}
        /\ temp_dir \subseteq {LogName, SofaName}
        /\ \A f \in InputUniverse : output_dir[f] \in {"none", "prior"}
        /\ job.probes = IF pc \in {"call", "unlink", "returned"} /\ job.pre_output = "none"
                        THEN 1 ELSE 0

C8_Witness ==
    dry_run /\ Returned("processed") /\ job.probes = 1 /\ Len(job.calls) = 6

\* C9: a dry-run batch over one matching file whose output does not exist
\* (and whose job raises nothing) ends with all three counters at 0.
C9_DryRunCountsNothing ==
    (dry_run /\ pc = "returned" /\ Len(all_files) = 1
        /\ job.pre_output = "none" /\ job.error = "none") => stats = ZeroStats

\* C10: outside dry-run, after a job is processed none of its intermediates
\* is in temp_folder and its output file is there; after a stage of a job
\* failed, the files the stages before it wrote are still in temp_folder.
C10_IntermediatesGone ==
    /\ (Returned("processed") /\ ~dry_run) =>
          /\ Intermediates(Cur) \cap temp_dir = {}
          /\ output_dir[Cur] = "complete"
    /\ (Returned("failed") /\ ~dry_run /\ job.failed_stage \in Stages) =>
          \A i \in 1..(Len(job.calls) - 1) : StageOutput(job.calls[i], Cur) \subseteq temp_dir

\* C11: validate raises exactly when input_folder is missing or is not a
\* directory, or sofa_file is missing, or audio_track is negative, or
\* extensions is empty; for every other configuration it returns and main
\* goes on to check_ffmpeg.
C11_ValidateRaises ==
    pc # "validate" =>
        LET bad == \/ input_folder \in {"missing", "file"}
                   \/ sofa_file = "missing"
                   \/ audio_track < 0
                   \/ Len(extensions) = 0
        IN  /\ bad => ended = Some("config_error") /\ pc = "done"
            /\ ~bad => ended = None /\ pc = "check_ffmpeg"

C11_Witness ==
    /\ ended = Some("config_error")
    /\ input_folder = "dir" /\ sofa_file = "present" /\ extensions # <<>>
    /\ audio_track = -1

\* What can go wrong inside run_command's try block.
RunCommandCauses == {"exit_nonzero", "not_found", "spawn_error", "read_error"}

\* C12: outside dry-run a run_command call that returned gave return code 0,
\* so between two calls of a job the last return code is 0; a call that met
\* a non-zero exit status, a missing ffmpeg or any other Exception while
\* spawning or reading raised FFmpegCommandError, and the job stopped there.
C12_ReturnsZeroOrRaises ==
    ~dry_run =>
        /\ job.return_code \in {None, Some(0)}
        /\ (pc \in {"call", "unlink"} /\ job.calls # <<>>) =>
              job.return_code = Some(0) /\ job.error = "none"
        /\ job.error \in RunCommandCauses =>
              /\ job.raised = "FFmpegCommandError"
              /\ job.failed_stage = job.calls[Len(job.calls)]
              /\ Returned("failed")
        /\ job.failed_stage \in Stages => job.error \in RunCommandCauses

C12_Witness ==
    /\ ~dry_run
    /\ job.error = "exit_nonzero"
    /\ job.raised = "FFmpegCommandError"
    /\ job.calls = <<"extract", "spatialize">>
    /\ job.return_code = Some(0)

\* The answers that are the explicit affirmative: "y" in either case, with
\* or without blanks around it.
AffirmativeAnswers == { <<"y">>, <<"Y", " ">> }

\* C13: a step taken from teardown leaves temp_folder and its files as they
\* are and asks nothing when keep_temp or dry_run is set; it leaves them as
\* they are when the answer to the prompt is not the affirmative one; so it
\* removes something only when neither flag is set and the answer was "y".
C13_TeardownKeeps ==
    [][ pc = "teardown" =>
          /\ (keep_temp \/ dry_run) =>
                /\ temp_exists' = temp_exists /\ temp_dir' = temp_dir
                /\ prompt' = None
          /\ (prompt' # None /\ prompt'[1] \notin AffirmativeAnswers) =>
                temp_exists' = temp_exists /\ temp_dir' = temp_dir
          /\ (temp_exists' # temp_exists \/ temp_dir' # temp_dir) =>
                /\ ~keep_temp /\ ~dry_run
                /\ prompt' # None /\ prompt'[1] \in AffirmativeAnswers
                /\ temp_dir' \subseteq temp_dir
      ]_vars

C13_Witness ==
    /\ ended = Some("complete")
    /\ prompt = Some(<<"y", "e", "s">>)
    /\ temp_exists /\ SofaName \in temp_dir
    /\ stats.failed = 1

\* C14: a step that takes the interrupt ends main with exit code 130 and
\* with temp_folder and every file in it still there, the job, the results,
\* the counters and the prompt as they were (no stage, no job and no
\* teardown after it); and no step is taken once main has returned 130.
C14_InterruptStops ==
    [][ /\ ended # Some("interrupt")
        /\ ended' = Some("interrupt") =>
              /\ pc \in InTry /\ pc' = "done"
              /\ exit_code' = Some(130)
              /\ temp_exists' = temp_exists /\ temp_dir \subseteq temp_dir'
              /\ job' = job /\ stage' = stage /\ idx' = idx
              /\ stats' = stats /\ results' = results
              /\ prompt' = prompt
      ]_vars

C14_Witness ==
    /\ ended = Some("interrupt") /\ exit_code = Some(130)
    /\ job.calls = <<"extract", "spatialize">> /\ stage = "spatialize"
    /\ idx < Len(all_files)
    /\ temp_exists /\ ExtractedAudio(Cur) \in temp_dir
    /\ prompt = None

\* C15: whatever the stream metadata query gives (ffprobe missing, failing,
\* printing no stream, printing a stream of any content), the job goes on to
\* the extract stage: once the query is over the job is at, or past, its
\* first run_command call, and no job fails before that call.
C15_MetadataAdvisory ==
    (InJob /\ pc # "probe" /\ job.probes = 1) =>
        /\ (pc = "call" /\ stage = "extract") \/ job.calls # <<>>
        /\ job.failed_stage # "probe"

\* C16: main returns 0 when the run went through setup_workspace,
\* process_all and cleanup and no job failed; 1 when validate raised, when
\* ffmpeg was not found, and when an exception reached main's last handler;
\* 130 when the interrupt did; and it returns nothing else.
C16_ExitCodes ==
    /\ pc # "done" => exit_code = None
    /\ pc = "done" =>
          /\ exit_code \in {Some(0), Some(1), Some(130)}
          /\ (ended = Some("complete") /\ stats.failed = 0) => exit_code = Some(0)
          /\ validate # "none" => exit_code = Some(1)
          /\ ffmpeg_found = Some(FALSE) => exit_code = Some(1)
          /\ ended = Some("fatal") => exit_code = Some(1)
          /\ ended = Some("interrupt") => exit_code = Some(130)
          /\ exit_code = Some(130) => ended = Some("interrupt")
          /\ exit_code = Some(1) => ended \in {Some("config_error"), Some("no_ffmpeg"), Some("fatal")}

C16_Witness ==
    /\ pc = "done" /\ exit_code = Some(0)
    /\ ended = Some("complete")
    /\ stats = [processed |-> 2, failed |-> 0, skipped |-> 0]

\* C17: the cleanup step of a job removes from temp_folder only files that
\* are intermediates of that job; the copied SOFA file and the log stay, and
\* so does what a job on another file left there.
C17_CleanupOwnOnly ==
    [][ (pc = "unlink" /\ pc' = "returned") =>
          /\ (temp_dir \ temp_dir') \subseteq Intermediates(Cur)
          /\ {LogName, SofaName} \subseteq temp_dir'
      ]_vars

\* C18: once the files are discovered, all_files holds every file of
\* input_folder whose extension is configured, each of them once, and
\* process_file is called on its entries in order, one result per entry.
C18_EachFileOnce ==
    pc \notin {"validate", "check_ffmpeg", "setup", "discover"} =>
        /\ Range(all_files) = {f \in input_dir : f.ext \in Range(extensions)}
        /\ \A i, k \in 1..Len(all_files) : all_files[i] = all_files[k] => i = k
        /\ Len(results) <= Len(all_files)
        /\ InJob => Len(results) = IF pc = "returned" THEN idx ELSE idx - 1

\* C19: the intermediates of two different files of one batch are different
\* paths of temp_folder.
C19_DisjointIntermediates ==
    \A i, k \in 1..Len(all_files) :
        all_files[i] # all_files[k] =>
            Intermediates(all_files[i]) \cap Intermediates(all_files[k]) = {}

\* C20: when validate raises, main returns 1 in that step, taken from its
\* first position: output_folder and temp_folder and their files are as
\* they were, check_ffmpeg has not run, no process was started and no file
\* was discovered or processed; and a run whose configuration validate
\* rejects never gets past it.
C20_ConfigErrorFirst ==
    /\ [](validate # "none" => pc \in {"validate", "done"})
    /\ [][ ended' = Some("config_error") =>
             /\ pc = "validate" /\ pc' = "done"
             /\ exit_code' = Some(1)
             /\ output_exists' = output_exists /\ output_dir' = output_dir
             /\ temp_exists' = temp_exists /\ temp_dir' = temp_dir
             /\ ffmpeg_found' = None /\ procs' = {}
             /\ job' = NewJob
             /\ all_files' = <<>> /\ results' = <<>> /\ stats' = ZeroStats
         ]_vars

C20_Witness ==
    /\ ended = Some("config_error") /\ exit_code = Some(1)
    /\ validate = "no_sofa"
    /\ input_dir # {}
    /\ ~output_exists /\ ~temp_exists

\* C21: when process_file returns for a job whose output path did not exist
\* before, the job is counted as processed if and only if its output file
\* exists: none after a failed job, one after a processed job.
C21_ProcessedIffOutput ==
    (pc = "returned" /\ job.pre_output = "none") =>
        ((results[idx].outcome = "processed") <=> (output_dir[Cur] # "none"))

\* C22: a run in which setup_workspace, process_all and cleanup all
\* returned ends with exit code 0 whatever the counters are, with failed
\* jobs and with no file discovered alike; so does every run that got past
\* check_ffmpeg and met neither the interrupt nor a fatal error.
C22_ExitIgnoresOutcomes ==
    /\ ended = Some("complete") => exit_code = Some(0)
    /\ (pc = "done" /\ ffmpeg_found = Some(TRUE)
          /\ ended \notin {Some("interrupt"), Some("fatal")}) =>
          /\ ended = Some("complete")
          /\ exit_code = Some(0)
          /\ Sum(stats) = Len(all_files)

C22_Witness ==
    /\ ended = Some("complete") /\ exit_code = Some(0)
    /\ stats.failed = 1 /\ stats.processed = 0 /\ Len(all_files) = 1

\* C23: in dry-run mode no step of the run creates, overwrites or removes
\* anything: output_folder, temp_folder and the files in them stay as they
\* were when main started.
C23_DryRunModifiesNothing ==
    [][ dry_run =>
          /\ output_exists' = output_exists /\ output_dir' = output_dir
          /\ temp_exists' = temp_exists /\ temp_dir' = temp_dir
      ]_vars

====
